---- MODULE Spec2Model ----
(***************************************************************************)
(* State-machine model of filament's VulkanBlitter                         *)
(* (filament/backend/src/vulkan/VulkanBlitter.cpp).                        *)
(*                                                                         *)
(* The blitter records image copies into a command buffer: two entry       *)
(* barriers, one vkCmdResolveImage or vkCmdBlitImage, and one or two exit  *)
(* barriers whose synchronization fields come from transitionHelper.  It   *)
(* also owns two lazily created shader modules (mVertex, mFragment).       *)
(*                                                                         *)
(* Masks (VkAccessFlags, VkPipelineStageFlags) are modelled as the set of  *)
(* bits that are set, so the literal 0 of the source is the empty set.     *)
(* A pointer is modelled as a set with at most one element: {} is nullptr. *)
(***************************************************************************)
EXTENDS Integers, Sequences, FiniteSets, TLC

\* ------------------------------------------------------------------------
\* Bounds of the model
\* ------------------------------------------------------------------------

\* Colour attachments of an offscreen render target are indexed 0..MaxColorIndex.
MaxColorIndex == 1

\* Rect coordinates range over 0..MaxCoord + 1.
MaxCoord == 1

\* shutdown() is called at most MaxShutdowns times in a run.
MaxShutdowns == 2

\* The calls of lazyInit are counted up to MaxLazyInitCalls.
MaxLazyInitCalls == 2

\* ------------------------------------------------------------------------
\* Vulkan enumerations used by the blitter
\* ------------------------------------------------------------------------

VK_IMAGE_LAYOUT_UNDEFINED == "VK_IMAGE_LAYOUT_UNDEFINED"
VK_IMAGE_LAYOUT_GENERAL == "VK_IMAGE_LAYOUT_GENERAL"
VK_IMAGE_LAYOUT_COLOR_ATTACHMENT_OPTIMAL == "VK_IMAGE_LAYOUT_COLOR_ATTACHMENT_OPTIMAL"
VK_IMAGE_LAYOUT_DEPTH_STENCIL_ATTACHMENT_OPTIMAL == "VK_IMAGE_LAYOUT_DEPTH_STENCIL_ATTACHMENT_OPTIMAL"
VK_IMAGE_LAYOUT_SHADER_READ_ONLY_OPTIMAL == "VK_IMAGE_LAYOUT_SHADER_READ_ONLY_OPTIMAL"
VK_IMAGE_LAYOUT_TRANSFER_SRC_OPTIMAL == "VK_IMAGE_LAYOUT_TRANSFER_SRC_OPTIMAL"
VK_IMAGE_LAYOUT_TRANSFER_DST_OPTIMAL == "VK_IMAGE_LAYOUT_TRANSFER_DST_OPTIMAL"
VK_IMAGE_LAYOUT_PRESENT_SRC_KHR == "VK_IMAGE_LAYOUT_PRESENT_SRC_KHR"

\* Every VkImageLayout value the model lets a caller pass to transitionHelper.
VkImageLayout ==
    { VK_IMAGE_LAYOUT_UNDEFINED, VK_IMAGE_LAYOUT_GENERAL,
      VK_IMAGE_LAYOUT_COLOR_ATTACHMENT_OPTIMAL,
      VK_IMAGE_LAYOUT_DEPTH_STENCIL_ATTACHMENT_OPTIMAL,
      VK_IMAGE_LAYOUT_SHADER_READ_ONLY_OPTIMAL,
      VK_IMAGE_LAYOUT_TRANSFER_SRC_OPTIMAL, VK_IMAGE_LAYOUT_TRANSFER_DST_OPTIMAL,
      VK_IMAGE_LAYOUT_PRESENT_SRC_KHR }

VK_ACCESS_SHADER_READ_BIT == "VK_ACCESS_SHADER_READ_BIT"
VK_ACCESS_TRANSFER_READ_BIT == "VK_ACCESS_TRANSFER_READ_BIT"
VK_ACCESS_TRANSFER_WRITE_BIT == "VK_ACCESS_TRANSFER_WRITE_BIT"

VK_PIPELINE_STAGE_TOP_OF_PIPE_BIT == "VK_PIPELINE_STAGE_TOP_OF_PIPE_BIT"
VK_PIPELINE_STAGE_FRAGMENT_SHADER_BIT == "VK_PIPELINE_STAGE_FRAGMENT_SHADER_BIT"
VK_PIPELINE_STAGE_TRANSFER_BIT == "VK_PIPELINE_STAGE_TRANSFER_BIT"
VK_PIPELINE_STAGE_BOTTOM_OF_PIPE_BIT == "VK_PIPELINE_STAGE_BOTTOM_OF_PIPE_BIT"

VK_IMAGE_ASPECT_COLOR_BIT == "VK_IMAGE_ASPECT_COLOR_BIT"
VK_IMAGE_ASPECT_DEPTH_BIT == "VK_IMAGE_ASPECT_DEPTH_BIT"

VK_FILTER_NEAREST == "VK_FILTER_NEAREST"
VK_FILTER_LINEAR == "VK_FILTER_LINEAR"
VkFilter == { VK_FILTER_NEAREST, VK_FILTER_LINEAR }

\* VK_NULL_HANDLE: the value of a shader module handle that was never created.
VK_NULL_HANDLE == 0

\* ------------------------------------------------------------------------
\* Collaborators: textures, attachments, render targets, surfaces
\* ------------------------------------------------------------------------

\* The object a non-null pointer refers to.
Deref(p) == CHOOSE t \in p : TRUE

SampleCounts == { 1, 4 }
ColorUsages == { "SAMPLEABLE", "COLOR_ATTACHMENT" }
DEPTH_ATTACHMENT == "DEPTH_ATTACHMENT"

\* getTextureLayout: the pure mapping from a texture's declared usage to its
\* working layout (attachable textures live in GENERAL, immutable ones in
\* SHADER_READ_ONLY_OPTIMAL).
getTextureLayout(usage) ==
    IF usage = DEPTH_ATTACHMENT THEN VK_IMAGE_LAYOUT_GENERAL
    ELSE IF usage = "COLOR_ATTACHMENT" THEN VK_IMAGE_LAYOUT_GENERAL
    ELSE VK_IMAGE_LAYOUT_SHADER_READ_ONLY_OPTIMAL

\* A VulkanAttachment: image, optional texture, mip level and array layer.
\* (Its format is only read by the block that FILAMENT_VULKAN_CHECK_BLIT_FORMAT 0
\* compiles out.)
VulkanAttachment(image, texture, level, layer) ==
    [ image |-> image, texture |-> texture, level |-> level, layer |-> layer ]

Image(target, slot, index) == [ target |-> target, slot |-> slot, index |-> index ]

\* The default render target: the swap chain's colour image and its depth
\* image, neither of which has a VulkanTexture.
DefaultRenderTarget ==
    [ id |-> << 1, "SWAP_CHAIN" >>,
      color |-> << VulkanAttachment(Image(<< 1, "SWAP_CHAIN" >>, "color", 0), {}, 0, 0) >>,
      depth |-> VulkanAttachment(Image(<< 1, "SWAP_CHAIN" >>, "depth", 0), {}, 0, 0),
      extent |-> [ width |-> MaxCoord + 3, height |-> MaxCoord + 2 ] ]

\* An offscreen render target: every attachment is backed by a texture of
\* the target's sample count; colour attachment i binds level i, layer i.
\* Multisampled and single-sampled targets differ in extent.
OffscreenRenderTarget(samples, usage) ==
    [ id |-> << samples, usage >>,
      color |-> [ i \in 1..(MaxColorIndex + 1) |->
                    VulkanAttachment(Image(<< samples, usage >>, "color", i - 1),
                                     { [ samples |-> samples, usage |-> usage ] },
                                     i - 1, i - 1) ],
      depth |-> VulkanAttachment(Image(<< samples, usage >>, "depth", 0),
                                 { [ samples |-> samples, usage |-> DEPTH_ATTACHMENT ] },
                                 0, 0),
      extent |-> [ width |-> MaxCoord + 2,
                   height |-> IF samples > 1 THEN MaxCoord + 3 ELSE MaxCoord + 2 ] ]

RenderTargets ==
    { DefaultRenderTarget } \cup
    { OffscreenRenderTarget(s, u) : s \in SampleCounts, u \in ColorUsages }

\* VulkanRenderTarget accessors.
getColor(target, index) == target.color[index + 1]
getDepth(target) == target.depth
getExtent(target) == target.extent

VkOffset3D(x, y, z) == [ x |-> x, y |-> y, z |-> z ]

\* The (srcRectPair, dstRectPair) pairs a caller passes: the source box starts
\* at the origin; the destination box is the same box or a different one.
RectPairs ==
    UNION { { [ src |-> << VkOffset3D(0, 0, 0), VkOffset3D(k, k, 1) >>, dst |-> d ] :
                d \in { << VkOffset3D(0, 0, 0), VkOffset3D(k, k, 1) >>,
                        << VkOffset3D(1, 1, 0),
                           VkOffset3D(MaxCoord + 1, MaxCoord + 1, 1) >> } } :
            k \in 1..MaxCoord }

\* The surfaces that can be current: headless or not, and the layout of the
\* swap chain attachment that getSwapChainAttachment(mContext) returns.
Surfaces ==
    [ headlessQueue : BOOLEAN,
      layout : { VK_IMAGE_LAYOUT_PRESENT_SRC_KHR, VK_IMAGE_LAYOUT_GENERAL } ]

\* ------------------------------------------------------------------------
\* State
\* ------------------------------------------------------------------------

VARIABLES
    device,          \* mContext.device is non-null
    currentSurface,  \* *mContext.currentSurface
    mVertex,         \* VulkanBlitter::mVertex
    mFragment,       \* VulkanBlitter::mFragment
    created,         \* the shader modules vkCreateShaderModule has returned, in order
    destroyed,       \* the handles passed to vkDestroyShaderModule, in order
    cmdbuffer,       \* the commands recorded into the caller's command buffer
    call,            \* the call that recorded into cmdbuffer: its name and arguments
    returned,        \* the value a call of transitionHelper returned
    lazyInitCalls,   \* how often lazyInit was called, counted up to MaxLazyInitCalls
    shutdownCalls,   \* how often shutdown was called, counted up to MaxShutdowns
    panic            \* "" while the process runs, else the assertion that ended it

vars == << device, currentSurface, mVertex, mFragment, created, destroyed,
           cmdbuffer, call, returned, lazyInitCalls, shutdownCalls, panic >>

NoArgs == [ op |-> "none" ]

Init ==
    /\ device = FALSE
    /\ currentSurface \in Surfaces
    /\ mVertex = VK_NULL_HANDLE
    /\ mFragment = VK_NULL_HANDLE
    /\ created = << >>
    /\ destroyed = << >>
    /\ cmdbuffer = << >>
    /\ call = NoArgs
    /\ returned = {}
    /\ lazyInitCalls = 0
    /\ shutdownCalls = 0
    /\ panic = ""

\* ------------------------------------------------------------------------
\* transitionHelper (lines 34-54)
\* ------------------------------------------------------------------------

\* A VulkanLayoutTransition built with designated initializers: the fields
\* that are not named are zero.
VulkanLayoutTransition(image, oldLayout, newLayout, subresources) ==
    [ image |-> image, oldLayout |-> oldLayout, newLayout |-> newLayout,
      subresources |-> subresources,
      srcStage |-> {}, srcAccessMask |-> {}, dstStage |-> {}, dstAccessMask |-> {} ]

\* transitionHelper without the case label of VK_IMAGE_LAYOUT_GENERAL.
transitionHelper_generalFallsThrough(transition) ==
    IF transition.newLayout = VK_IMAGE_LAYOUT_SHADER_READ_ONLY_OPTIMAL
    THEN [ transition EXCEPT
             !.srcAccessMask = { VK_ACCESS_TRANSFER_WRITE_BIT },
             !.dstAccessMask = { VK_ACCESS_SHADER_READ_BIT },
             !.srcStage = { VK_PIPELINE_STAGE_TRANSFER_BIT },
             !.dstStage = { VK_PIPELINE_STAGE_FRAGMENT_SHADER_BIT } ]
    ELSE [ transition EXCEPT
             !.srcAccessMask = { VK_ACCESS_TRANSFER_READ_BIT },
             !.dstAccessMask = {},
             !.srcStage = { VK_PIPELINE_STAGE_TRANSFER_BIT },
             !.dstStage = { VK_PIPELINE_STAGE_TOP_OF_PIPE_BIT } ]

transitionHelper(transition) ==
    IF transition.newLayout \in { VK_IMAGE_LAYOUT_SHADER_READ_ONLY_OPTIMAL,
                                  VK_IMAGE_LAYOUT_GENERAL }
    THEN [ transition EXCEPT
             !.srcAccessMask = { VK_ACCESS_TRANSFER_WRITE_BIT },
             !.dstAccessMask = { VK_ACCESS_SHADER_READ_BIT },
             !.srcStage = { VK_PIPELINE_STAGE_TRANSFER_BIT },
             !.dstStage = { VK_PIPELINE_STAGE_FRAGMENT_SHADER_BIT } ]
    ELSE [ transition EXCEPT
             !.srcAccessMask = { VK_ACCESS_TRANSFER_READ_BIT },
             !.dstAccessMask = {},
             !.srcStage = { VK_PIPELINE_STAGE_TRANSFER_BIT },
             !.dstStage = { VK_PIPELINE_STAGE_TOP_OF_PIPE_BIT } ]

\* ------------------------------------------------------------------------
\* Commands recorded into a command buffer
\* ------------------------------------------------------------------------

\* utils::assert_invariant: the process ends when the condition is false.
assert_invariant(cond) == cond

\* transitionImageLayout records one pipeline barrier for the transition.
transitionImageLayout(cmdbuf, transition) ==
    Append(cmdbuf, [ cmd |-> "vkCmdPipelineBarrier", transition |-> transition ])

vkCmdResolveImage(cmdbuf, srcImage, srcImageLayout, dstImage, dstImageLayout, regions) ==
    Append(cmdbuf, [ cmd |-> "vkCmdResolveImage",
                     srcImage |-> srcImage, srcImageLayout |-> srcImageLayout,
                     dstImage |-> dstImage, dstImageLayout |-> dstImageLayout,
                     regions |-> regions ])

vkCmdBlitImage(cmdbuf, srcImage, srcImageLayout, dstImage, dstImageLayout, regions, filter) ==
    Append(cmdbuf, [ cmd |-> "vkCmdBlitImage",
                     srcImage |-> srcImage, srcImageLayout |-> srcImageLayout,
                     dstImage |-> dstImage, dstImageLayout |-> dstImageLayout,
                     regions |-> regions, filter |-> filter ])

\* ------------------------------------------------------------------------
\* blitFast (lines 106-196)
\* ------------------------------------------------------------------------

\* VkImageSubresourceLayers { aspect, level, layer, 1 }
VkImageSubresourceLayers(aspect, att) ==
    [ aspectMask |-> aspect, mipLevel |-> att.level,
      baseArrayLayer |-> att.layer, layerCount |-> 1 ]

blitRegions(aspect, src, dst, srcRect, dstRect) ==
    << [ srcSubresource |-> VkImageSubresourceLayers(aspect, src),
         srcOffsets |-> << srcRect[1], srcRect[2] >>,
         dstSubresource |-> VkImageSubresourceLayers(aspect, dst),
         dstOffsets |-> << dstRect[1], dstRect[2] >> ] >>

\* A resolve region whose extent is that of the source rectangle.
resolveRegions_extentOfRect(aspect, srcTarget, src, dst, srcRect, dstRect) ==
    << [ srcSubresource |-> VkImageSubresourceLayers(aspect, src),
         srcOffset |-> srcRect[1],
         dstSubresource |-> VkImageSubresourceLayers(aspect, dst),
         dstOffset |-> dstRect[1],
         extent |-> [ width |-> srcRect[2].x - srcRect[1].x,
                      height |-> srcRect[2].y - srcRect[1].y,
                      depth |-> 1 ] ] >>

resolveRegions(aspect, srcTarget, src, dst, srcRect, dstRect) ==
    LET srcExtent == getExtent(srcTarget)
    IN << [ srcSubresource |-> VkImageSubresourceLayers(aspect, src),
            srcOffset |-> srcRect[1],
            dstSubresource |-> VkImageSubresourceLayers(aspect, dst),
            dstOffset |-> dstRect[1],
            extent |-> [ width |-> srcExtent.width, height |-> srcExtent.height,
                         depth |-> 1 ] ] >>

\* srcRange and dstRange
VkImageSubresourceRange(aspect, att) ==
    [ aspectMask |-> aspect, baseMipLevel |-> att.level, levelCount |-> 1,
      baseArrayLayer |-> att.layer, layerCount |-> 1 ]

srcEntryTransition(src, srcRange) ==
    [ image |-> src.image,
      oldLayout |-> VK_IMAGE_LAYOUT_UNDEFINED,
      newLayout |-> VK_IMAGE_LAYOUT_TRANSFER_SRC_OPTIMAL,
      subresources |-> srcRange,
      srcStage |-> { VK_PIPELINE_STAGE_BOTTOM_OF_PIPE_BIT }, srcAccessMask |-> {},
      dstStage |-> { VK_PIPELINE_STAGE_TRANSFER_BIT },
      dstAccessMask |-> { VK_ACCESS_TRANSFER_READ_BIT } ]

\* The destination's entry barrier with the access mask of the source's.
dstEntryTransition_transferRead(dst, dstRange) ==
    [ image |-> dst.image,
      oldLayout |-> VK_IMAGE_LAYOUT_UNDEFINED,
      newLayout |-> VK_IMAGE_LAYOUT_TRANSFER_DST_OPTIMAL,
      subresources |-> dstRange,
      srcStage |-> { VK_PIPELINE_STAGE_BOTTOM_OF_PIPE_BIT }, srcAccessMask |-> {},
      dstStage |-> { VK_PIPELINE_STAGE_TRANSFER_BIT },
      dstAccessMask |-> { VK_ACCESS_TRANSFER_READ_BIT } ]

dstEntryTransition(dst, dstRange) ==
    [ image |-> dst.image,
      oldLayout |-> VK_IMAGE_LAYOUT_UNDEFINED,
      newLayout |-> VK_IMAGE_LAYOUT_TRANSFER_DST_OPTIMAL,
      subresources |-> dstRange,
      srcStage |-> { VK_PIPELINE_STAGE_BOTTOM_OF_PIPE_BIT }, srcAccessMask |-> {},
      dstStage |-> { VK_PIPELINE_STAGE_TRANSFER_BIT },
      dstAccessMask |-> { VK_ACCESS_TRANSFER_WRITE_BIT } ]

\* The condition of line 160 without its test of the destination.
useResolve_srcSamplesOnly(src, dst) ==
    /\ src.texture # {}
    /\ Deref(src.texture).samples > 1

\* The condition of line 160: resolve instead of blit.
useResolve(src, dst) ==
    /\ src.texture # {}
    /\ Deref(src.texture).samples > 1
    /\ dst.texture # {}
    /\ Deref(dst.texture).samples = 1

\* Lines 160-167: the copy command.  The result is the command buffer and the
\* assertion that failed, if one did.
recordCopy(cmdbuf, aspect, filter, srcTarget, src, dst, srcRect, dstRect) ==
    IF useResolve(src, dst)
    THEN IF ~assert_invariant(aspect # VK_IMAGE_ASPECT_DEPTH_BIT)
         THEN [ cmdbuffer |-> cmdbuf,
                panic |-> "Resolve with depth is not yet supported." ]
         ELSE [ cmdbuffer |->
                    vkCmdResolveImage(cmdbuf, src.image,
                        VK_IMAGE_LAYOUT_TRANSFER_SRC_OPTIMAL, dst.image,
                        VK_IMAGE_LAYOUT_TRANSFER_DST_OPTIMAL,
                        resolveRegions(aspect, srcTarget, src, dst, srcRect, dstRect)),
                panic |-> "" ]
    ELSE [ cmdbuffer |->
               vkCmdBlitImage(cmdbuf, src.image,
                   VK_IMAGE_LAYOUT_TRANSFER_SRC_OPTIMAL, dst.image,
                   VK_IMAGE_LAYOUT_TRANSFER_DST_OPTIMAL,
                   blitRegions(aspect, src, dst, srcRect, dstRect), filter),
           panic |-> "" ]

\* Lines 169-183 without the test of headlessQueue.
recordSrcExit_ignoresHeadless(cmdbuf, src, srcRange) ==
    IF src.texture # {}
    THEN transitionImageLayout(cmdbuf, transitionHelper(
             VulkanLayoutTransition(src.image, VK_IMAGE_LAYOUT_UNDEFINED,
                 getTextureLayout(Deref(src.texture).usage), srcRange)))
    ELSE transitionImageLayout(cmdbuf, transitionHelper(
             VulkanLayoutTransition(src.image, VK_IMAGE_LAYOUT_UNDEFINED,
                 VK_IMAGE_LAYOUT_COLOR_ATTACHMENT_OPTIMAL, srcRange)))

\* Lines 169-183 with headlessQueue tested before src.texture.
recordSrcExit_headlessFirst(cmdbuf, src, srcRange) ==
    IF currentSurface.headlessQueue THEN cmdbuf
    ELSE IF src.texture # {}
    THEN transitionImageLayout(cmdbuf, transitionHelper(
             VulkanLayoutTransition(src.image, VK_IMAGE_LAYOUT_UNDEFINED,
                 getTextureLayout(Deref(src.texture).usage), srcRange)))
    ELSE transitionImageLayout(cmdbuf, transitionHelper(
             VulkanLayoutTransition(src.image, VK_IMAGE_LAYOUT_UNDEFINED,
                 VK_IMAGE_LAYOUT_COLOR_ATTACHMENT_OPTIMAL, srcRange)))

\* Lines 169-183: the exit barrier of the source, if there is one.
recordSrcExit(cmdbuf, src, srcRange) ==
    IF src.texture # {}
    THEN transitionImageLayout(cmdbuf, transitionHelper(
             VulkanLayoutTransition(src.image, VK_IMAGE_LAYOUT_UNDEFINED,
                 getTextureLayout(Deref(src.texture).usage), srcRange)))
    ELSE IF ~currentSurface.headlessQueue
    THEN transitionImageLayout(cmdbuf, transitionHelper(
             VulkanLayoutTransition(src.image, VK_IMAGE_LAYOUT_UNDEFINED,
                 VK_IMAGE_LAYOUT_COLOR_ATTACHMENT_OPTIMAL, srcRange)))
    ELSE cmdbuf

\* Lines 187-188 without the test of dst.texture.
desiredLayout_swapChainOnly(dst) == currentSurface.layout

\* Lines 187-188.
desiredLayout(dst) ==
    IF dst.texture # {} THEN getTextureLayout(Deref(dst.texture).usage)
    ELSE currentSurface.layout

\* Lines 190-195: the exit barrier of the destination.
recordDstExit(cmdbuf, dst, dstRange) ==
    transitionImageLayout(cmdbuf, transitionHelper(
        VulkanLayoutTransition(dst.image, VK_IMAGE_LAYOUT_UNDEFINED,
            desiredLayout(dst), dstRange)))

\* Lines 169-195 with the destination's exit barrier recorded first.
recordExits_dstFirst(cmdbuf, src, srcRange, dst, dstRange) ==
    recordSrcExit(recordDstExit(cmdbuf, dst, dstRange), src, srcRange)

\* Lines 169-195 with the source's range in the destination's exit barrier.
recordExits_srcRangeForBoth(cmdbuf, src, srcRange, dst, dstRange) ==
    recordDstExit(recordSrcExit(cmdbuf, src, srcRange), dst, srcRange)

\* Lines 169-195: both exit barriers, the source's first.
recordExits(cmdbuf, src, srcRange, dst, dstRange) ==
    recordDstExit(recordSrcExit(cmdbuf, src, srcRange), dst, dstRange)

\* Lines 142-158: both entry barriers, the source's first.
recordEntries(cmdbuf, src, srcRange, dst, dstRange) ==
    transitionImageLayout(
        transitionImageLayout(cmdbuf, srcEntryTransition(src, srcRange)),
        dstEntryTransition(dst, dstRange))

blitFast(aspect, filter, srcTarget, src, dst, srcRect, dstRect, cmdbuf) ==
    LET srcRange == VkImageSubresourceRange(aspect, src)
        dstRange == VkImageSubresourceRange(aspect, dst)
        entered == recordEntries(cmdbuf, src, srcRange, dst, dstRange)
        copied == recordCopy(entered, aspect, filter, srcTarget, src, dst,
                             srcRect, dstRect)
    IN IF copied.panic # "" THEN copied
       ELSE [ cmdbuffer |-> recordExits(copied.cmdbuffer, src, srcRange, dst, dstRange),
              panic |-> "" ]

\* ------------------------------------------------------------------------
\* lazyInit (lines 207-226) and shutdown (lines 198-203)
\* ------------------------------------------------------------------------

VK_SUCCESS == "VK_SUCCESS"
VK_ERROR_OUT_OF_HOST_MEMORY == "VK_ERROR_OUT_OF_HOST_MEMORY"

\* lazyInit without the early return of line 208.
lazyInitDone_never == FALSE

\* Line 208: the modules were created already.
lazyInitDone == mVertex # VK_NULL_HANDLE

\* The VkResults the two vkCreateShaderModule calls can return; they are only
\* drawn when lazyInit gets to call vkCreateShaderModule.
CreateResults ==
    IF lazyInitDone \/ ~device
    THEN { [ vertex |-> VK_SUCCESS, fragment |-> VK_SUCCESS ] }
    ELSE { [ vertex |-> VK_SUCCESS, fragment |-> VK_SUCCESS ],
           [ vertex |-> VK_SUCCESS, fragment |-> VK_ERROR_OUT_OF_HOST_MEMORY ],
           [ vertex |-> VK_ERROR_OUT_OF_HOST_MEMORY, fragment |-> VK_SUCCESS ] }

\* vkCreateShaderModule returns a handle that was never returned before.
NewShaderModule(log) == Len(log) + 1

\* lazyInit without the assertion of line 210.
lazyInit_withoutDeviceAssert(results) ==
    LET unchanged(msg) ==
            [ mVertex |-> mVertex, mFragment |-> mFragment, created |-> created,
              panic |-> msg ]
        vertex == NewShaderModule(created)
        afterVertex == Append(created, [ stage |-> "vertex", module |-> vertex ])
        fragment == NewShaderModule(afterVertex)
    IN IF lazyInitDone THEN unchanged("")
       ELSE IF results.vertex # VK_SUCCESS
       THEN unchanged("Unable to create vertex shader for blit.")
       ELSE IF results.fragment # VK_SUCCESS
       THEN [ mVertex |-> vertex, mFragment |-> mFragment, created |-> afterVertex,
              panic |-> "Unable to create fragment shader for blit." ]
       ELSE [ mVertex |-> vertex, mFragment |-> fragment,
              created |-> Append(afterVertex,
                                 [ stage |-> "fragment", module |-> fragment ]),
              panic |-> "" ]

\* The blitter's fields after lazyInit, and the assertion that failed, if one did.
lazyInit(results) ==
    LET unchanged(msg) ==
            [ mVertex |-> mVertex, mFragment |-> mFragment, created |-> created,
              panic |-> msg ]
        vertex == NewShaderModule(created)
        afterVertex == Append(created, [ stage |-> "vertex", module |-> vertex ])
        fragment == NewShaderModule(afterVertex)
    IN IF lazyInitDone THEN unchanged("")
       ELSE IF ~assert_invariant(device) THEN unchanged("assert_invariant(mContext.device)")
       ELSE IF results.vertex # VK_SUCCESS
       THEN unchanged("Unable to create vertex shader for blit.")
       ELSE IF results.fragment # VK_SUCCESS
       THEN [ mVertex |-> vertex, mFragment |-> mFragment, created |-> afterVertex,
              panic |-> "Unable to create fragment shader for blit." ]
       ELSE [ mVertex |-> vertex, mFragment |-> fragment,
              created |-> Append(afterVertex,
                                 [ stage |-> "fragment", module |-> fragment ]),
              panic |-> "" ]

counted(n) == IF n < MaxLazyInitCalls THEN n + 1 ELSE n

\* A direct call of lazyInit.
LazyInit ==
    /\ panic = ""
    /\ call = NoArgs
    /\ \E results \in CreateResults :
         LET init == lazyInit(results)
         IN /\ mVertex' = init.mVertex
            /\ mFragment' = init.mFragment
            /\ created' = init.created
            /\ panic' = init.panic
    /\ lazyInitCalls' = counted(lazyInitCalls)
    /\ UNCHANGED << device, currentSurface, destroyed, cmdbuffer, call, returned,
                    shutdownCalls >>

\* The handles shutdown passes to vkDestroyShaderModule; it leaves mVertex and
\* mFragment as they are.
shutdown_withoutDeviceCheck == << mVertex, mFragment >>

shutdown == IF device THEN << mVertex, mFragment >> ELSE << >>

Shutdown ==
    /\ panic = ""
    /\ call = NoArgs
    /\ Len(destroyed) < 2 * MaxShutdowns
    /\ destroyed' = destroyed \o shutdown
    /\ shutdownCalls' = IF shutdownCalls < MaxShutdowns THEN shutdownCalls + 1
                                                        ELSE shutdownCalls
    /\ UNCHANGED << device, currentSurface, mVertex, mFragment, created, cmdbuffer,
                    call, returned, lazyInitCalls, panic >>

\* ------------------------------------------------------------------------
\* blitColor (lines 56-79) and blitDepth (lines 81-104)
\* ------------------------------------------------------------------------

\* The BlitArgs a caller passes to blitColor.
ColorBlitArgs ==
    UNION { { [ srcTarget |-> s, dstTarget |-> d, targetIndex |-> i, filter |-> f,
                srcRectPair |-> r.src, dstRectPair |-> r.dst ] :
                i \in 0..(Len(s.color) - 1), d \in RenderTargets, f \in VkFilter,
                r \in RectPairs } :
            s \in RenderTargets }

\* The BlitArgs a caller passes to blitDepth, which does not read targetIndex.
DepthBlitArgs ==
    { [ srcTarget |-> s, dstTarget |-> d, targetIndex |-> 0, filter |-> f,
        srcRectPair |-> r.src, dstRectPair |-> r.dst ] :
        s \in RenderTargets, d \in RenderTargets, f \in VkFilter, r \in RectPairs }

\* blitColor reading the source's first colour attachment whatever targetIndex is.
blitColorSrc_firstColor(args) == getColor(args.srcTarget, 0)

blitColorSrc(args) == getColor(args.srcTarget, args.targetIndex)
blitColorDst(args) == getColor(args.dstTarget, 0)
blitDepthSrc(args) == getDepth(args.srcTarget)
blitDepthDst(args) == getDepth(args.dstTarget)

\* The body shared by blitColor and blitDepth: lazyInit, then blitFast into
\* the caller's command buffer.  The result is the blitter's fields, the
\* command buffer and the assertion that failed, if one did.
lazyInitThenBlitFast(aspect, args, src, dst, results) ==
    LET init == lazyInit(results)
        fast == blitFast(aspect, args.filter, args.srcTarget, src, dst,
                         args.srcRectPair, args.dstRectPair, cmdbuffer)
    IN [ mVertex |-> init.mVertex, mFragment |-> init.mFragment,
         created |-> init.created,
         cmdbuffer |-> IF init.panic # "" THEN cmdbuffer ELSE fast.cmdbuffer,
         panic |-> IF init.panic # "" THEN init.panic ELSE fast.panic ]

\* The caller records one blit into each command buffer it begins.
BlitColor ==
    /\ panic = ""
    /\ call = NoArgs
    /\ \E args \in ColorBlitArgs, results \in CreateResults :
         LET out == lazyInitThenBlitFast(VK_IMAGE_ASPECT_COLOR_BIT, args,
                        blitColorSrc(args), blitColorDst(args), results)
         IN /\ mVertex' = out.mVertex
            /\ mFragment' = out.mFragment
            /\ created' = out.created
            /\ cmdbuffer' = out.cmdbuffer
            /\ panic' = out.panic
            /\ call' = [ op |-> "blitColor", args |-> args ]
    /\ lazyInitCalls' = counted(lazyInitCalls)
    /\ UNCHANGED << device, currentSurface, destroyed, returned, shutdownCalls >>

BlitDepth ==
    /\ panic = ""
    /\ call = NoArgs
    /\ \E args \in DepthBlitArgs, results \in CreateResults :
         LET out == lazyInitThenBlitFast(VK_IMAGE_ASPECT_DEPTH_BIT, args,
                        blitDepthSrc(args), blitDepthDst(args), results)
         IN /\ mVertex' = out.mVertex
            /\ mFragment' = out.mFragment
            /\ created' = out.created
            /\ cmdbuffer' = out.cmdbuffer
            /\ panic' = out.panic
            /\ call' = [ op |-> "blitDepth", args |-> args ]
    /\ lazyInitCalls' = counted(lazyInitCalls)
    /\ UNCHANGED << device, currentSurface, destroyed, returned, shutdownCalls >>

\* ------------------------------------------------------------------------
\* The driver: command buffers and the device's lifecycle
\* ------------------------------------------------------------------------

\* The caller submits its command buffer and begins an empty one.  Every
\* other operation is taken between two command buffers (call = NoArgs), so
\* that the command buffer of a blit is observed as the blit left it; since
\* this step is enabled after every blit that returned, no sequence of
\* operations is lost.
BeginCommandBuffer ==
    /\ panic = ""
    /\ call # NoArgs
    /\ cmdbuffer' = << >>
    /\ call' = NoArgs
    /\ UNCHANGED << device, currentSurface, mVertex, mFragment, created, destroyed,
                    returned, lazyInitCalls, shutdownCalls, panic >>

CreateDevice ==
    /\ panic = ""
    /\ call = NoArgs
    /\ ~device
    /\ device' = TRUE
    /\ UNCHANGED << currentSurface, mVertex, mFragment, created, destroyed, cmdbuffer,
                    call, returned, lazyInitCalls, shutdownCalls, panic >>

DestroyDevice ==
    /\ panic = ""
    /\ call = NoArgs
    /\ device
    /\ device' = FALSE
    /\ UNCHANGED << currentSurface, mVertex, mFragment, created, destroyed, cmdbuffer,
                    call, returned, lazyInitCalls, shutdownCalls, panic >>

Next ==
    \/ LazyInit
    \/ Shutdown
    \/ BlitColor
    \/ BlitDepth
    \/ BeginCommandBuffer
    \/ CreateDevice
    \/ DestroyDevice

Spec == Init /\ [][Next]_vars

\* ------------------------------------------------------------------------
\* transitionHelper on its own: every transition a caller can pass
\* ------------------------------------------------------------------------

TransitionInputs ==
    { VulkanLayoutTransition(att.image, old, new,
                             VkImageSubresourceRange(aspect, att)) :
        att \in { getColor(OffscreenRenderTarget(1, "SAMPLEABLE"), i) :
                    i \in 0..MaxColorIndex },
        old \in { VK_IMAGE_LAYOUT_UNDEFINED, VK_IMAGE_LAYOUT_TRANSFER_SRC_OPTIMAL,
                  VK_IMAGE_LAYOUT_TRANSFER_DST_OPTIMAL },
        new \in VkImageLayout,
        aspect \in { VK_IMAGE_ASPECT_COLOR_BIT, VK_IMAGE_ASPECT_DEPTH_BIT } }

TransitionHelper ==
    /\ call = NoArgs
    /\ \E transition \in TransitionInputs :
         /\ call' = [ op |-> "transitionHelper", args |-> transition ]
         /\ returned' = { transitionHelper(transition) }
    /\ UNCHANGED << device, currentSurface, mVertex, mFragment, created, destroyed,
                    cmdbuffer, lazyInitCalls, shutdownCalls, panic >>

SpecHelper == Init /\ [][TransitionHelper]_vars

\* ------------------------------------------------------------------------
\* Vocabulary of the properties
\* ------------------------------------------------------------------------

IsBlit == call.op \in { "blitColor", "blitDepth" }

\* The call ran to its end: no assertion ended the process.
Completed == IsBlit /\ panic = ""

\* The attachments the call copies between.
Src == IF call.op = "blitColor" THEN blitColorSrc(call.args) ELSE blitDepthSrc(call.args)
Dst == IF call.op = "blitColor" THEN blitColorDst(call.args) ELSE blitDepthDst(call.args)

\* An attachment's sample count: its texture's, and 1 for the swap chain's
\* images, which have no texture and are always single-sampled.
SampleCount(att) == IF att.texture = {} THEN 1 ELSE Deref(att.texture).samples

IsBarrier(c) == c.cmd = "vkCmdPipelineBarrier"
IsResolve(c) == c.cmd = "vkCmdResolveImage"
IsResample(c) == c.cmd = "vkCmdBlitImage"
IsCopy(c) == IsResolve(c) \/ IsResample(c)

\* An entry barrier moves an image into a transfer layout from the bottom of
\* the pipe; an exit barrier waits for the transfer stage.
IsEntry(c) ==
    /\ IsBarrier(c)
    /\ c.transition.srcStage = { VK_PIPELINE_STAGE_BOTTOM_OF_PIPE_BIT }
    /\ c.transition.newLayout \in { VK_IMAGE_LAYOUT_TRANSFER_SRC_OPTIMAL,
                                    VK_IMAGE_LAYOUT_TRANSFER_DST_OPTIMAL }
IsExit(c) ==
    /\ IsBarrier(c)
    /\ c.transition.srcStage = { VK_PIPELINE_STAGE_TRANSFER_BIT }

\* The positions of the command buffer that hold a command of a kind.
Where(P(_)) == { i \in DOMAIN cmdbuffer : P(cmdbuffer[i]) }
Count(P(_)) == Cardinality(Where(P))

ResolveRequested == SampleCount(Src) > 1 /\ SampleCount(Dst) = 1

\* ------------------------------------------------------------------------
\* C1.  A colour copy from a multisampled attachment to a single-sampled one
\* records exactly one resolve command and no blit command, whichever of the
\* two attachments has a texture.
\* ------------------------------------------------------------------------
C1_ColorResolve ==
    (call.op = "blitColor" /\ panic = "" /\ ResolveRequested)
        => (Count(IsResolve) = 1 /\ Count(IsResample) = 0)

\* ------------------------------------------------------------------------
\* C2.  A copy whose sample counts are not (source > 1 and destination = 1)
\* records exactly one blit command, with the filter of the request, and no
\* resolve command.
\* ------------------------------------------------------------------------
C2_ResampleOtherwise ==
    (Completed /\ ~ResolveRequested)
        => /\ Count(IsResample) = 1
           /\ Count(IsResolve) = 0
           /\ \A i \in Where(IsResample) : cmdbuffer[i].filter = call.args.filter

C2_Witness ==
    /\ call.op = "blitColor"
    /\ panic = ""
    /\ SampleCount(Src) = 4
    /\ SampleCount(Dst) = 4
    /\ call.args.filter = VK_FILTER_NEAREST
    /\ \E i \in Where(IsResample) : cmdbuffer[i].filter = VK_FILTER_NEAREST

\* ------------------------------------------------------------------------
\* C3.  A depth copy from a multisampled attachment to a single-sampled one
\* ends in a fatal assertion, and no copy command is recorded.
\* ------------------------------------------------------------------------
C3_DepthResolveFatal ==
    (call.op = "blitDepth" /\ ResolveRequested)
        => (panic # "" /\ Count(IsCopy) = 0)

\* ------------------------------------------------------------------------
\* C4.  At the end of a call, fatal or not, the command buffer holds both
\* entry barriers followed by a copy command, or nothing the call recorded.
\* ------------------------------------------------------------------------
C4_EntryBarriersWithCopy ==
    IsBlit
        => \/ cmdbuffer = << >>
           \/ /\ Len(cmdbuffer) >= 3
              /\ IsEntry(cmdbuffer[1])
              /\ IsEntry(cmdbuffer[2])
              /\ IsCopy(cmdbuffer[3])

\* The synchronization fields the exit policy prescribes for a target layout.
ExitPolicy(layout) ==
    IF layout \in { VK_IMAGE_LAYOUT_SHADER_READ_ONLY_OPTIMAL, VK_IMAGE_LAYOUT_GENERAL }
    THEN [ srcAccessMask |-> { VK_ACCESS_TRANSFER_WRITE_BIT },
           dstAccessMask |-> { VK_ACCESS_SHADER_READ_BIT },
           srcStage |-> { VK_PIPELINE_STAGE_TRANSFER_BIT },
           dstStage |-> { VK_PIPELINE_STAGE_FRAGMENT_SHADER_BIT } ]
    ELSE [ srcAccessMask |-> { VK_ACCESS_TRANSFER_READ_BIT },
           dstAccessMask |-> {},
           srcStage |-> { VK_PIPELINE_STAGE_TRANSFER_BIT },
           dstStage |-> { VK_PIPELINE_STAGE_TOP_OF_PIPE_BIT } ]

\* The transition has the synchronization fields of the exit policy.
FollowsPolicy(t) ==
    LET p == ExitPolicy(t.newLayout)
    IN /\ t.srcAccessMask = p.srcAccessMask
       /\ t.dstAccessMask = p.dstAccessMask
       /\ t.srcStage = p.srcStage
       /\ t.dstStage = p.dstStage

\* ------------------------------------------------------------------------
\* C5.  A completed call records exactly 2 entry barriers, and 2 exit
\* barriers when the source has a texture or the surface is not headless,
\* else 1 exit barrier; its barriers are 3 or 4 in all.
\* ------------------------------------------------------------------------
C5_BarrierCount ==
    Completed
        => /\ Count(IsEntry) = 2
           /\ Count(IsExit) =
                  IF Src.texture # {} \/ ~currentSurface.headlessQueue THEN 2 ELSE 1
           /\ Count(IsBarrier) = Count(IsEntry) + Count(IsExit)
           /\ Count(IsBarrier) \in { 3, 4 }

C5_Witness ==
    /\ Completed
    /\ Src.texture = {}
    /\ currentSurface.headlessQueue
    /\ Count(IsEntry) = 2
    /\ Count(IsExit) = 1

\* ------------------------------------------------------------------------
\* C6.  A completed call records, in this order: the entry barrier of the
\* source image, the entry barrier of the destination image, exactly one
\* copy command, the exit barrier of the source if there is one, and last
\* the exit barrier of the destination.  No exit barrier precedes the copy
\* command and no entry barrier follows it.
\* ------------------------------------------------------------------------
C6_CommandOrder ==
    Completed
        => LET n == Len(cmdbuffer)
           IN /\ n \in { 4, 5 }
              /\ IsEntry(cmdbuffer[1])
              /\ cmdbuffer[1].transition.image = Src.image
              /\ cmdbuffer[1].transition.newLayout = VK_IMAGE_LAYOUT_TRANSFER_SRC_OPTIMAL
              /\ IsEntry(cmdbuffer[2])
              /\ cmdbuffer[2].transition.image = Dst.image
              /\ cmdbuffer[2].transition.newLayout = VK_IMAGE_LAYOUT_TRANSFER_DST_OPTIMAL
              /\ Where(IsCopy) = { 3 }
              /\ \A i \in Where(IsEntry) : i < 3
              /\ \A i \in Where(IsExit) : i > 3
              /\ IsExit(cmdbuffer[n])
              /\ cmdbuffer[n].transition.image = Dst.image
              /\ cmdbuffer[n].transition.subresources.baseMipLevel = Dst.level
              /\ n = 5 => /\ IsExit(cmdbuffer[4])
                          /\ cmdbuffer[4].transition.image = Src.image
                          /\ cmdbuffer[4].transition.subresources.baseMipLevel = Src.level

C6_Witness ==
    /\ Completed
    /\ Len(cmdbuffer) = 5
    /\ Src.image # Dst.image
    /\ IsExit(cmdbuffer[4])
    /\ cmdbuffer[4].transition.image = Src.image
    /\ cmdbuffer[5].transition.image = Dst.image

\* ------------------------------------------------------------------------
\* C7.  transitionHelper returns a transition for every layout: for a new
\* layout of SHADER_READ_ONLY_OPTIMAL or GENERAL it sets (srcAccess
\* TRANSFER_WRITE, dstAccess SHADER_READ, srcStage TRANSFER, dstStage
\* FRAGMENT_SHADER), for every other new layout (srcAccess TRANSFER_READ,
\* dstAccess 0, srcStage TRANSFER, dstStage TOP_OF_PIPE); the image, the old
\* layout, the new layout and the subresource range are those of its argument.
\* ------------------------------------------------------------------------
C7_TransitionPolicy ==
    call.op = "transitionHelper"
        => /\ Cardinality(returned) = 1
           /\ LET arg == call.args
                  res == Deref(returned)
              IN /\ arg.newLayout \in { VK_IMAGE_LAYOUT_SHADER_READ_ONLY_OPTIMAL,
                                        VK_IMAGE_LAYOUT_GENERAL }
                     => /\ res.srcAccessMask = { VK_ACCESS_TRANSFER_WRITE_BIT }
                        /\ res.dstAccessMask = { VK_ACCESS_SHADER_READ_BIT }
                        /\ res.srcStage = { VK_PIPELINE_STAGE_TRANSFER_BIT }
                        /\ res.dstStage = { VK_PIPELINE_STAGE_FRAGMENT_SHADER_BIT }
                 /\ arg.newLayout \notin { VK_IMAGE_LAYOUT_SHADER_READ_ONLY_OPTIMAL,
                                           VK_IMAGE_LAYOUT_GENERAL }
                     => /\ res.srcAccessMask = { VK_ACCESS_TRANSFER_READ_BIT }
                        /\ res.dstAccessMask = {}
                        /\ res.srcStage = { VK_PIPELINE_STAGE_TRANSFER_BIT }
                        /\ res.dstStage = { VK_PIPELINE_STAGE_TOP_OF_PIPE_BIT }
                 /\ res.image = arg.image
                 /\ res.oldLayout = arg.oldLayout
                 /\ res.newLayout = arg.newLayout
                 /\ res.subresources = arg.subresources

C7_Witness ==
    /\ call.op = "transitionHelper"
    /\ call.args.newLayout = VK_IMAGE_LAYOUT_GENERAL
    /\ call.args.oldLayout = VK_IMAGE_LAYOUT_TRANSFER_DST_OPTIMAL
    /\ returned # {}
    /\ Deref(returned).dstStage = { VK_PIPELINE_STAGE_FRAGMENT_SHADER_BIT }

\* ------------------------------------------------------------------------
\* C8.  A completed call records an exit barrier of the destination, whatever
\* the surface and the textures: its new layout is the layout of the
\* destination texture's usage if the destination has a texture, else the
\* layout of the swap chain attachment, and its access masks and stages are
\* the exit policy's for that layout.
\* ------------------------------------------------------------------------
C8_DstExitBarrier ==
    Completed
        => LET last == cmdbuffer[Len(cmdbuffer)]
           IN /\ IsExit(last)
              /\ last.transition.image = Dst.image
              /\ last.transition.newLayout =
                     IF Dst.texture # {}
                     THEN getTextureLayout(Deref(Dst.texture).usage)
                     ELSE currentSurface.layout
              /\ FollowsPolicy(last.transition)

C8_Witness ==
    /\ Completed
    /\ Dst.texture = {}
    /\ currentSurface.headlessQueue
    /\ currentSurface.layout = VK_IMAGE_LAYOUT_PRESENT_SRC_KHR
    /\ cmdbuffer[Len(cmdbuffer)].transition.image = Dst.image
    /\ cmdbuffer[Len(cmdbuffer)].transition.newLayout = VK_IMAGE_LAYOUT_PRESENT_SRC_KHR
    /\ cmdbuffer[Len(cmdbuffer)].transition.dstStage = { VK_PIPELINE_STAGE_TOP_OF_PIPE_BIT }

\* ------------------------------------------------------------------------
\* C9.  The exit barrier of the source has three cases: with a texture its
\* new layout is the layout of the texture's usage, headless or not; without
\* a texture and not headless it is COLOR_ATTACHMENT_OPTIMAL; otherwise no
\* exit barrier of the source is recorded.  A recorded one has the access
\* masks and stages of the exit policy for its new layout.
\* ------------------------------------------------------------------------
C9_SrcExitBarrier ==
    Completed
        => LET exits == Where(IsExit)
               srcExit == cmdbuffer[4].transition
           IN IF Src.texture # {} \/ ~currentSurface.headlessQueue
              THEN /\ exits = { 4, 5 }
                   /\ srcExit.image = Src.image
                   /\ srcExit.newLayout =
                          IF Src.texture # {}
                          THEN getTextureLayout(Deref(Src.texture).usage)
                          ELSE VK_IMAGE_LAYOUT_COLOR_ATTACHMENT_OPTIMAL
                   /\ FollowsPolicy(srcExit)
              ELSE /\ exits = { 4 }
                   /\ Len(cmdbuffer) = 4

C9_Witness ==
    /\ Completed
    /\ Src.texture # {}
    /\ currentSurface.headlessQueue
    /\ Len(cmdbuffer) = 5
    /\ cmdbuffer[4].transition.image = Src.image
    /\ cmdbuffer[4].transition.newLayout = VK_IMAGE_LAYOUT_SHADER_READ_ONLY_OPTIMAL

\* ------------------------------------------------------------------------
\* C10.  While the device is present and shader creation succeeds, the
\* vertex module and the fragment module are each created exactly once, by
\* the first call of lazyInit; a later lazyInit, direct or through blitColor
\* or blitDepth, creates nothing and leaves both handles unchanged.
\* ------------------------------------------------------------------------
Modules(stage) == { i \in DOMAIN created : created[i].stage = stage }

CreatedOnce ==
    /\ Cardinality(Modules("vertex")) <= 1
    /\ Cardinality(Modules("fragment")) <= 1
    /\ (lazyInitCalls > 0 /\ panic = "")
           => /\ Cardinality(Modules("vertex")) = 1
              /\ Cardinality(Modules("fragment")) = 1
              /\ \A i \in Modules("vertex") : created[i].module = mVertex
              /\ \A i \in Modules("fragment") : created[i].module = mFragment
              /\ mVertex # VK_NULL_HANDLE
              /\ mFragment # VK_NULL_HANDLE
              /\ mVertex # mFragment

LaterInitCreatesNothing ==
    (mVertex # VK_NULL_HANDLE /\ mFragment # VK_NULL_HANDLE)
        => /\ mVertex' = mVertex
           /\ mFragment' = mFragment
           /\ created' = created

C10_CreatedExactlyOnce == []CreatedOnce /\ [][LaterInitCreatesNothing]_vars

C10_Witness ==
    /\ lazyInitCalls = 2
    /\ IsBlit
    /\ panic = ""
    /\ Len(created) = 2
    /\ mVertex = created[1].module
    /\ mFragment = created[2].module

\* ------------------------------------------------------------------------
\* C11.  Over any sequence of lazyInit and shutdown calls, no shader module
\* that was created is passed to vkDestroyShaderModule more than once: a
\* second shutdown destroys nothing that the first one destroyed.
\* ------------------------------------------------------------------------
Destroys(module) == { i \in DOMAIN destroyed : destroyed[i] = module }

C11_DestroyedAtMostOnce ==
    \A i \in DOMAIN created : Cardinality(Destroys(created[i].module)) <= 1

\* ------------------------------------------------------------------------
\* C12.  A call of shutdown while the device is absent passes nothing to
\* vkDestroyShaderModule and leaves mVertex, mFragment and the device as they
\* were, whether or not lazyInit has created the modules before.
\* ------------------------------------------------------------------------
ShutdownWithoutDevice ==
    (shutdownCalls' # shutdownCalls /\ ~device)
        => /\ destroyed' = destroyed
           /\ mVertex' = mVertex
           /\ mFragment' = mFragment
           /\ device' = device

C12_ShutdownWithoutDevice == [][ShutdownWithoutDevice]_vars

C12_Witness ==
    /\ shutdownCalls = 1
    /\ ~device
    /\ destroyed = << >>
    /\ Len(created) = 2
    /\ mVertex = created[1].module
    /\ mFragment = created[2].module

\* ------------------------------------------------------------------------
\* C13.  Every exit barrier of a completed call leaves the transfer layout
\* its image was put in by the entry barrier: the old layout of the source's
\* exit barrier is TRANSFER_SRC_OPTIMAL and the old layout of the
\* destination's exit barrier is TRANSFER_DST_OPTIMAL.
\* ------------------------------------------------------------------------
C13_ExitLeavesTransferLayout ==
    Completed
        => /\ cmdbuffer[Len(cmdbuffer)].transition.oldLayout =
                  VK_IMAGE_LAYOUT_TRANSFER_DST_OPTIMAL
           /\ Len(cmdbuffer) = 5
                  => cmdbuffer[4].transition.oldLayout =
                         VK_IMAGE_LAYOUT_TRANSFER_SRC_OPTIMAL

\* ------------------------------------------------------------------------
\* C14.  In every call that records anything, the first command is the
\* source's entry barrier (UNDEFINED to TRANSFER_SRC_OPTIMAL, bottom of pipe
\* with no access, to the transfer stage with transfer-read access), the
\* second is the destination's entry barrier (UNDEFINED to
\* TRANSFER_DST_OPTIMAL, bottom of pipe with no access, to the transfer stage
\* with transfer-write access), and the copy command names the two new
\* layouts as the layouts of its source and destination images.
\* ------------------------------------------------------------------------
EntryFields(t, newLayout, dstAccessMask) ==
    /\ t.oldLayout = VK_IMAGE_LAYOUT_UNDEFINED
    /\ t.newLayout = newLayout
    /\ t.srcStage = { VK_PIPELINE_STAGE_BOTTOM_OF_PIPE_BIT }
    /\ t.srcAccessMask = {}
    /\ t.dstStage = { VK_PIPELINE_STAGE_TRANSFER_BIT }
    /\ t.dstAccessMask = dstAccessMask

C14_EntryBarriersFixed ==
    (IsBlit /\ cmdbuffer # << >>)
        => /\ Len(cmdbuffer) >= 2
           /\ IsBarrier(cmdbuffer[1])
           /\ EntryFields(cmdbuffer[1].transition, VK_IMAGE_LAYOUT_TRANSFER_SRC_OPTIMAL,
                          { VK_ACCESS_TRANSFER_READ_BIT })
           /\ IsBarrier(cmdbuffer[2])
           /\ EntryFields(cmdbuffer[2].transition, VK_IMAGE_LAYOUT_TRANSFER_DST_OPTIMAL,
                          { VK_ACCESS_TRANSFER_WRITE_BIT })
           /\ \A i \in Where(IsCopy) :
                  /\ cmdbuffer[i].srcImageLayout = cmdbuffer[1].transition.newLayout
                  /\ cmdbuffer[i].dstImageLayout = cmdbuffer[2].transition.newLayout

C14_Witness ==
    /\ Completed
    /\ cmdbuffer[1].transition.dstAccessMask = { VK_ACCESS_TRANSFER_READ_BIT }
    /\ cmdbuffer[2].transition.dstAccessMask = { VK_ACCESS_TRANSFER_WRITE_BIT }
    /\ IsResolve(cmdbuffer[3])
    /\ cmdbuffer[3].srcImageLayout = VK_IMAGE_LAYOUT_TRANSFER_SRC_OPTIMAL
    /\ cmdbuffer[3].dstImageLayout = VK_IMAGE_LAYOUT_TRANSFER_DST_OPTIMAL

\* ------------------------------------------------------------------------
\* C15.  blitColor copies from the source target's colour attachment at
\* targetIndex to the destination target's colour attachment 0, with the
\* colour aspect; blitDepth copies from the source target's depth attachment
\* to the destination target's, with the depth aspect.  The copy command
\* names these two images, and the call's aspect is the aspect of both
\* subresources of the copy region and of every barrier's subresource range.
\* ------------------------------------------------------------------------
SourceAttachment ==
    IF call.op = "blitColor" THEN call.args.srcTarget.color[call.args.targetIndex + 1]
                             ELSE call.args.srcTarget.depth

DestinationAttachment ==
    IF call.op = "blitColor" THEN call.args.dstTarget.color[1]
                             ELSE call.args.dstTarget.depth

Aspect ==
    IF call.op = "blitColor" THEN VK_IMAGE_ASPECT_COLOR_BIT ELSE VK_IMAGE_ASPECT_DEPTH_BIT

C15_AttachmentsAndAspect ==
    (IsBlit /\ cmdbuffer # << >>)
        => /\ cmdbuffer[1].transition.image = SourceAttachment.image
           /\ cmdbuffer[2].transition.image = DestinationAttachment.image
           /\ \A i \in Where(IsBarrier) :
                  cmdbuffer[i].transition.subresources.aspectMask = Aspect
           /\ \A i \in Where(IsCopy) :
                  /\ cmdbuffer[i].srcImage = SourceAttachment.image
                  /\ cmdbuffer[i].dstImage = DestinationAttachment.image
                  /\ \A r \in DOMAIN cmdbuffer[i].regions :
                         /\ cmdbuffer[i].regions[r].srcSubresource.aspectMask = Aspect
                         /\ cmdbuffer[i].regions[r].dstSubresource.aspectMask = Aspect

C15_Witness ==
    /\ call.op = "blitColor"
    /\ panic = ""
    /\ call.args.targetIndex = 1
    /\ call.args.dstTarget = call.args.srcTarget
    /\ cmdbuffer[3].srcImage = call.args.srcTarget.color[2].image
    /\ cmdbuffer[3].dstImage = call.args.srcTarget.color[1].image
    /\ cmdbuffer[3].srcImage # cmdbuffer[3].dstImage
    /\ cmdbuffer[3].regions[1].srcSubresource.aspectMask = VK_IMAGE_ASPECT_COLOR_BIT

\* ------------------------------------------------------------------------
\* C16.  A call of lazyInit, direct or through blitColor or blitDepth, made
\* while the device is absent and no module was created, ends in the fatal
\* assertion on the device: it creates no shader module, leaves both handles
\* null and records no barrier and no copy command.
\* ------------------------------------------------------------------------
DeviceAssertion == "assert_invariant(mContext.device)"

InitWithoutDevice ==
    (~device /\ mVertex = VK_NULL_HANDLE /\ lazyInitCalls' # lazyInitCalls)
        => /\ panic' = DeviceAssertion
           /\ created' = created
           /\ mVertex' = VK_NULL_HANDLE
           /\ mFragment' = VK_NULL_HANDLE
           /\ cmdbuffer' = cmdbuffer
           /\ cmdbuffer' = << >>

Layers(att) ==
    [ aspectMask |-> Aspect, mipLevel |-> att.level, baseArrayLayer |-> att.layer,
      layerCount |-> 1 ]

C17_CopyRegions ==
    IsBlit
        => /\ \A i \in Where(IsResample) :
                  cmdbuffer[i].regions =
                      << [ srcSubresource |-> Layers(SourceAttachment),
                           srcOffsets |-> call.args.srcRectPair,
                           dstSubresource |-> Layers(DestinationAttachment),
                           dstOffsets |-> call.args.dstRectPair ] >>
           /\ \A i \in Where(IsResolve) :
                  cmdbuffer[i].regions =
                      << [ srcSubresource |-> Layers(SourceAttachment),
                           srcOffset |-> call.args.srcRectPair[1],
                           dstSubresource |-> Layers(DestinationAttachment),
                           dstOffset |-> call.args.dstRectPair[1],
                           extent |-> [ width |-> call.args.srcTarget.extent.width,
                                        height |-> call.args.srcTarget.extent.height,
                                        depth |-> 1 ] ] >>

C17_Witness ==
    /\ Completed
    /\ IsResolve(cmdbuffer[3])
    /\ call.args.targetIndex = 1
    /\ cmdbuffer[3].regions[1].srcSubresource.mipLevel = 1
    /\ cmdbuffer[3].regions[1].dstSubresource.mipLevel = 0
    /\ cmdbuffer[3].regions[1].dstOffset = VkOffset3D(1, 1, 0)
    /\ cmdbuffer[3].regions[1].extent.height = call.args.srcTarget.extent.height
    /\ cmdbuffer[3].regions[1].extent.height # call.args.dstTarget.extent.height
    /\ cmdbuffer[3].regions[1].extent.height # call.args.srcRectPair[2].y

\* ------------------------------------------------------------------------
\* C18.  In every state a sequence of lazyInit, shutdown, blitColor and
\* blitDepth calls reaches, a handle that is not null refers to a shader
\* module that was created and has not been destroyed.
\* ------------------------------------------------------------------------
Live(handle) ==
    /\ \E i \in DOMAIN created : created[i].module = handle
    /\ Destroys(handle) = {}

C18_HandlesLive ==
    /\ mVertex # VK_NULL_HANDLE => Live(mVertex)
    /\ mFragment # VK_NULL_HANDLE => Live(mFragment)

\* ------------------------------------------------------------------------
\* C19.  Every barrier of a completed call is on the source attachment's
\* image or the destination attachment's image, and on the single mip level
\* and single array layer that the attachment binds: base level and base
\* layer are the attachment's, both counts are 1.  Each exit barrier names
\* the image and the subresource range of the entry barrier of its side.
\* All commands of the call are in the one command buffer the caller passed.
\* ------------------------------------------------------------------------
Range(att) ==
    [ aspectMask |-> Aspect, baseMipLevel |-> att.level, levelCount |-> 1,
      baseArrayLayer |-> att.layer, layerCount |-> 1 ]

SameSubresource(exit, entry) ==
    /\ exit.image = entry.image
    /\ exit.subresources = entry.subresources

C19_ExitSameSubresource ==
    Completed
        => LET srcEntry == cmdbuffer[1].transition
               dstEntry == cmdbuffer[2].transition
           IN /\ srcEntry.image = SourceAttachment.image
              /\ srcEntry.subresources = Range(SourceAttachment)
              /\ dstEntry.image = DestinationAttachment.image
              /\ dstEntry.subresources = Range(DestinationAttachment)
              /\ SameSubresource(cmdbuffer[Len(cmdbuffer)].transition, dstEntry)
              /\ Len(cmdbuffer) = 5 => SameSubresource(cmdbuffer[4].transition, srcEntry)
              /\ \A i \in Where(IsBarrier) :
                     \/ SameSubresource(cmdbuffer[i].transition, srcEntry)
                     \/ SameSubresource(cmdbuffer[i].transition, dstEntry)

C19_Witness ==
    /\ Completed
    /\ Len(cmdbuffer) = 5
    /\ call.args.targetIndex = 1
    /\ cmdbuffer[4].transition.subresources.baseMipLevel = 1
    /\ cmdbuffer[4].transition.subresources.baseArrayLayer = 1
    /\ cmdbuffer[5].transition.subresources.baseMipLevel = 0
    /\ cmdbuffer[5].transition.subresources.levelCount = 1
    /\ cmdbuffer[5].transition.subresources.layerCount = 1
    /\ cmdbuffer[4].transition.image = cmdbuffer[1].transition.image
    /\ cmdbuffer[5].transition.image = cmdbuffer[2].transition.image
    /\ cmdbuffer[4].transition.image # cmdbuffer[5].transition.image

====
